---------------------------- MODULE Spec2Model ----------------------------
(***************************************************************************)
(* State-machine model of src/bot.py: a Telegram bot that relays a         *)
(* submitted video/document to an SFTP host and answers with a public      *)
(* link, gated by a channel-membership check.                              *)
(*                                                                         *)
(* Execution model.  The Application is built without concurrent_updates,  *)
(* so one update handler runs at a time on one asyncio event loop.  A      *)
(* handler gives the loop away only at an `await`.  Coroutines handed to   *)
(* application.create_task (the progress callbacks) run on the same loop,  *)
(* so they advance only while no synchronous code is running.              *)
(***************************************************************************)
EXTENDS Integers, Sequences, FiniteSets, TLC

(***************************************************************************)
(* Bounds of the model.                                                    *)
(***************************************************************************)
MaxOps == 2        \* media events handled in one behaviour
MaxChunks == 2     \* chunks transferred in one behaviour (one callback each)
MaxTicks == 2      \* seconds the wall clock may advance

(***************************************************************************)
(* Program constants.                                                      *)
(***************************************************************************)
MIN_INTERVAL == 2  \* `if current_time - last_update_time[0] < 2: return`
OWNER_ID == 1      \* int(os.getenv("OWNER_ID", "0")), a non-zero id (main)

Users == {OWNER_ID, OWNER_ID + 1}

\* time.time() at process start: far beyond MIN_INTERVAL after the epoch.
StartTime == MIN_INTERVAL + 1

\* The five settings upload_file_with_progress requires, in dict order.
SettingNames == <<"FTP_HOST", "FTP_USER", "FTP_PASS", "FTP_PATH", "PUBLIC_URL_BASE">>
Settings == {SettingNames[k] : k \in 1..Len(SettingNames)}

\* Contents channels.json may have when the process starts.
ChannelLists == {<<>>, <<"@x">>, <<"@x", "@y">>}

\* ChatMember.status values, and how a get_chat_member call can end.
Satisfying == {"member", "administrator", "creator"}
Statuses == Satisfying \cup {"left"}   \* "left": any status outside the list of line 158
TelegramError == "TelegramError"   \* telegram.error.TelegramError (and subclasses)
OtherError == "Exception"          \* any exception that is not a TelegramError
QueryOutcomes == Statuses \cup {TelegramError, OtherError}

\* The submissions: a video that declares its file name, and a video and a
\* document that declare none (file_name is None).
NoName == "None"
Submissions == {[kind |-> "video", declared |-> "clip.mp4"],
                [kind |-> "video", declared |-> NoName],
                [kind |-> "document", declared |-> NoName]}

\* ConversationHandler.END and the state AWAITING_FORWARD (line 29).
END == "END"
AWAITING_FORWARD == "AWAITING_FORWARD"

\* No pure computation is under examination.
NoCalc == [fn |-> "none"]

VARIABLES
    channels,          \* contents of CHANNELS_FILE
    env,               \* setting name -> TRUE iff the variable is set non-empty
    now,               \* int(time.time())
    fs,                \* paths that exist under /tmp
    nops,              \* media events accepted so far; the running one is nops
    pc,                \* position of the running handler ("idle": none)
    user_id,           \* update.effective_user.id of the running handler
    required_channels, \* handle_media's local list
    not_subscribed,    \* handle_media's local list
    queried,           \* get_chat_member calls of the running handler
    file_name,         \* handle_media's local
    total,             \* size of the scratch file, in chunks (os.stat in put)
    sent,              \* chunks sftp.put has transferred
    op,                \* what the latest handle_media call did (observation)
    processing_msg,    \* per media event: the text the status message shows
    last_update_time,  \* per media event: the closure cell last_update_time[0]
    tasks,             \* per media event: progress_callback coroutines created
    chunks,            \* chunks the behaviour may still transfer
    conv,              \* per user: state of the add-channel conversation
    calc               \* the pure computation under examination, if any

vars == <<channels, env, now, fs, nops, pc, user_id, required_channels,
          not_subscribed, queried, file_name, total, sent, op,
          processing_msg, last_update_time, tasks, chunks, conv, calc>>

Ops == 1..MaxOps

(***************************************************************************)
(* Pure helpers.                                                           *)
(***************************************************************************)
\* A text of the status message (NoText: there is no status message).
Text(kind, pct, detail) == [kind |-> kind, pct |-> pct, detail |-> detail]
NoText == Text("", 0, <<>>)
Downloading == Text("downloading", 0, <<>>)
LinkText == Text("link", 0, <<>>)
GenericText == Text("generic", 0, <<>>)
AuthText == Text("auth", 0, <<>>)
ConfigText(missing) == Text("config", 0, missing)
ProgressText(pct) == Text("progress", pct, <<>>)

\* A validation that finds nothing missing; RelayStateMachine does not hold
\* of it.
none_missing(e) == <<>>

\* A validation that stops at the first falsy value; ConfigValidation does
\* not hold of it.
first_missing_var(e) ==
    LET q == SelectSeq(SettingNames, LAMBDA v : ~e[v])
    IN  IF q = <<>> THEN <<>> ELSE <<q[1]>>

\* line 46: the names whose value is falsy, in dict order.
missing_vars(e) == SelectSeq(SettingNames, LAMBDA v : ~e[v])

\* line 168: the declared name, or a name synthesized from the clock.
FileNameOf(kind, declared, t) ==
    IF declared # NoName THEN <<declared, 0>>
    ELSE IF kind = "video" THEN <<"video_", t>> ELSE <<"file_", t>>

\* line 179: int((sent / total) * 100); total = 0 raises ZeroDivisionError.
\* (The quotient is a float: for every input within the bounds here the
\* product truncates to floor(100 * sent / total); for larger inputs it can
\* fall one short of it, as for 29 of 50.)
DivError == -1
Percentage(s, t) == IF t = 0 THEN DivError ELSE (s * 100) \div t

\* line 180: str * int - a string repeated n times, empty for n <= 0.
Times(ch, n) == [i \in 1..n |-> ch]

\* line 180: the bar, its filled segments written # and the others -:
\* '#' * int(percentage / 10) + '-' * (10 - int(percentage / 10))
bar(percentage) ==
    Times("#", percentage \div 10) \o Times("-", 10 - percentage \div 10)

\* Strings are sequences of characters.  A str.rstrip that strips nothing;
\* PublicUrl does not hold of it.
no_strip(s, ch) == s

\* lines 52, 58: str.rstrip('/') drops every trailing ch.
RECURSIVE rstrip(_, _)
rstrip(s, ch) ==
    IF s # <<>> /\ s[Len(s)] = ch THEN rstrip(SubSeq(s, 1, Len(s) - 1), ch) ELSE s

\* line 58: f"{PUBLIC_URL_BASE.rstrip('/')}/{remote_filename}"
public_url(base, remote_filename) == rstrip(base, "/") \o <<"/">> \o remote_filename

\* lines 162-163: one join button per blocking channel, then the re-check one.
Buttons(blocking) == [k \in 1..Len(blocking) |-> <<"join", blocking[k]>>]
                        \o << <<"check_subscription", "">> >>

\* What is observed of the latest handler call.  handler: the callback the
\* update was dispatched to; cause: what went wrong in the environment;
\* reported: the last outcome text handle_media handed to edit_text;
\* delivered: whether that edit was applied; user, reply, queries, status:
\* the sender, the reply (delivered: it was sent, it did not raise), the
\* get_chat_member calls and the status they returned, of a handler other
\* than handle_media (user is also the receiver of handle_media's join
\* prompt).
NoOp == [handler |-> "none", user |-> 0, reply |-> "none", queries |-> 0,
         status |-> "none",
         admitted |-> FALSE, blocking |-> <<>>, prompt |-> <<>>,
         retrievals |-> 0, connects |-> 0,
         cause |-> "none", reported |-> "none", delivered |-> FALSE,
         missing |-> <<>>, uploaded |-> FALSE, returned |-> FALSE]
MediaOp == [NoOp EXCEPT !.handler = "handle_media"]

\* The synchronous stretch of handle_media: line 194 calls
\* upload_file_with_progress directly, with no await and no executor.
LoopBlocked == pc \in {"validate", "connect", "put"}

(***************************************************************************)
(* Initial state.                                                          *)
(***************************************************************************)
store == <<channels, env, chunks>>
gate_locals == <<user_id, required_channels, not_subscribed, queried>>
relay_locals == <<file_name, total, sent>>

\* The channel list and the environment are read by different parts of
\* the program (the gate never reads env, upload_file_with_progress never
\* reads channels): every channel list is tried with a complete
\* environment, every environment with the empty channel list.
AllSet == [v \in Settings |-> TRUE]

Init ==
    /\ \/ channels \in ChannelLists /\ env = AllSet
       \/ channels = <<>> /\ env \in [Settings -> BOOLEAN]
    /\ now = StartTime
    /\ fs = {}
    /\ nops = 0
    /\ pc = "idle"
    /\ user_id = 0
    /\ required_channels = <<>>
    /\ not_subscribed = <<>>
    /\ queried = <<>>
    /\ file_name = <<"", 0>>
    /\ total = 0
    /\ sent = 0
    /\ op = NoOp
    /\ processing_msg = [o \in Ops |-> NoText]
    /\ last_update_time = [o \in Ops |-> 0]
    /\ tasks = [o \in Ops |-> <<>>]
    /\ chunks = MaxChunks
    /\ conv = [u \in Users |-> END]
    /\ calc = NoCalc

\* The gate's locals are read by no line after 165.
DropGateLocals ==
    /\ user_id' = 0
    /\ required_channels' = <<>>
    /\ not_subscribed' = <<>>
    /\ queried' = <<>>

\* The handler returns (or its exception leaves it): its locals are gone.
Return ==
    /\ pc' = "idle"
    /\ DropGateLocals
    /\ file_name' = <<"", 0>>
    /\ total' = 0
    /\ sent' = 0

\* A handler without the finally clause; ScratchRemoved does not hold of it.
NoFinally(files, path) == files

\* lines 202-203: finally: if os.path.exists(temp_file_path): os.remove(...)
Finally(files, path) == files \ {path}

\* The closure of a relay (processing_msg, last_update_time and the
\* coroutines made from progress_callback) lives while its handler runs or
\* one of its coroutines has not ended; `running` is the relay whose handler
\* runs after the step (0: none).
PendingIn(ts) == \E k \in 1..Len(ts) : ts[k].st \in {"ready", "editing"}
Collect(pm, lut, ts, running) ==
    /\ processing_msg' = [o \in Ops |-> IF o = running \/ PendingIn(ts[o])
                                        THEN pm[o] ELSE NoText]
    /\ last_update_time' = [o \in Ops |-> IF o = running \/ PendingIn(ts[o])
                                          THEN lut[o] ELSE 0]
    /\ tasks' = [o \in Ops |-> IF o = running \/ PendingIn(ts[o]) THEN ts[o] ELSE <<>>]
Running == IF pc = "idle" THEN 0 ELSE nops
Kept(running) == Collect(processing_msg, last_update_time, tasks, running)

\* The event loop runs the coroutines create_task has queued before it
\* handles any I/O that completes later: an awaited call returns, and a new
\* update is dispatched, only when no created coroutine is still to start.
NoReady == \A o \in Ops : \A k \in 1..Len(tasks[o]) : tasks[o][k].st # "ready"

\* The clock is read at line 168 (the synthesized file name) and at line
\* 176 (when a coroutine starts) only.
ClockReadNext == pc \in {"idle", "gate"} \/ ~NoReady

\* The wall clock advances.  Time that passes while no reader of the clock
\* is about to run is seen by the next reader all the same, so it is
\* counted where a reader can run next.
Tick ==
    /\ now < StartTime + MaxTicks
    /\ ClockReadNext
    /\ now' = now + 1
    /\ UNCHANGED <<conv, calc, store, fs, nops, pc, gate_locals, relay_locals, op,
                   processing_msg, last_update_time, tasks>>

(***************************************************************************)
(* handle_media, lines 150-203.                                            *)
(***************************************************************************)
\* A gate that is blocked by a failed query only, whatever status a
\* successful one returns; GateAdmission does not hold of it.
BlocksOnError(r) == r = TelegramError

\* lines 158-159: does this outcome of get_chat_member put the channel in
\* not_subscribed?
Blocks(r) == r = TelegramError \/ r \notin Satisfying

\* line 159: `except TelegramError` - what the gate loop catches.
GateCatches(r) == r = TelegramError

\* line 157: the user whose membership is asked for.
QueriedUser(u) == u

\* With every gate on, also an empty list is sent to the loop of line 155;
\* NoGateMode does not hold of it.
AlwaysGate(rc) == FALSE

\* line 152: `if required_channels:` - an empty list skips lines 153-165.
NoGate(rc) == rc = <<>>

\* lines 150-152: a video or document m arrives from user u;
\* load_channels().  With an empty list the handler goes straight to lines
\* 167-171.  (Line 168 is the only reader of m: with a gate to pass first,
\* m is drawn where that line runs.)
MediaEvent(u, m) ==
    /\ pc = "idle"
    /\ nops < MaxOps
    /\ NoReady
    /\ nops' = nops + 1
    /\ user_id' = u
    /\ required_channels' = channels
    /\ not_subscribed' = <<>>
    /\ queried' = <<>>
    /\ total' = 0
    /\ sent' = 0
    /\ IF ~NoGate(channels)
         THEN /\ pc' = "gate"
              /\ file_name' = file_name
              /\ op' = MediaOp
         ELSE /\ pc' = "reply"
              /\ file_name' = FileNameOf(m.kind, m.declared, now)
              /\ op' = [MediaOp EXCEPT !.admitted = TRUE]
    /\ Kept(nops + 1)
    /\ UNCHANGED <<conv, calc, store, now, fs>>

\* lines 155-161, 167-168: one get_chat_member call of the loop returns or
\* raises; after the last one the handler prompts (line 164) or goes on to
\* 167-171.  An exception the loop does not catch leaves handle_media.
GateQuery(r, m) ==
    /\ pc = "gate"
    /\ NoReady
    /\ LET c == required_channels[Len(queried) + 1]
           ns == IF Blocks(r) THEN Append(not_subscribed, c) ELSE not_subscribed
           last == Len(queried) + 1 = Len(required_channels)
           pass == last /\ ns = <<>>
       IN  IF r \in Statuses \/ GateCatches(r)
            THEN /\ queried' = Append(queried, <<c, QueriedUser(user_id), r>>)
                 /\ not_subscribed' = ns
                 /\ pc' = IF ~last THEN "gate" ELSE IF pass THEN "reply" ELSE "prompt"
                 /\ file_name' = IF pass THEN FileNameOf(m.kind, m.declared, now)
                                 ELSE file_name
                 /\ op' = [op EXCEPT !.admitted = pass, !.blocking = ns]
                 /\ Kept(nops)
                 /\ UNCHANGED <<user_id, required_channels, total, sent>>
            ELSE /\ op' = [op EXCEPT !.cause = "gate_exception", !.returned = TRUE]
                 /\ Return
                 /\ Kept(0)
    /\ UNCHANGED <<conv, calc, store, now, fs, nops>>

\* lines 162-165: the join prompt is sent and the handler returns.
Prompt ==
    /\ pc = "prompt"
    /\ NoReady
    /\ op' = [op EXCEPT !.prompt = Buttons(not_subscribed), !.user = user_id,
                        !.returned = TRUE]
    /\ Return
    /\ Kept(0)
    /\ UNCHANGED <<conv, calc, store, now, fs, nops>>

\* lines 171-173: reply_text("Downloading file..."), temp_file_path,
\* last_update_time = [0].  A failed reply raises out of the handler.
Reply(ok) ==
    /\ pc = "reply"
    /\ NoReady
    /\ IF ok
         THEN /\ Collect([processing_msg EXCEPT ![nops] = Downloading],
                         [last_update_time EXCEPT ![nops] = 0], tasks, nops)
              /\ op' = op
              /\ pc' = "get_file"
              /\ DropGateLocals
              /\ UNCHANGED relay_locals
         ELSE /\ op' = [op EXCEPT !.cause = "reply", !.returned = TRUE]
              /\ Return
              /\ Kept(0)
    /\ UNCHANGED <<conv, calc, store, now, fs, nops>>

(***************************************************************************)
(* The relay: lines 187-203 and upload_file_with_progress, lines 45-63.    *)
(***************************************************************************)
\* A handler that starts over after an exception; NoRetries does not hold
\* of it.
Retry(cls) == "get_file"

\* lines 197-201: the except clause an exception of this class enters; the
\* clause calls edit_text and awaits it.
IsTyped(cls) == cls \in {"ValueError", "ConnectionRefusedError"}
Raised(cls) == IF IsTyped(cls) THEN "except_typed" ELSE "except_generic"

\* An upload that re-raises every failure of the session as it is;
\* AuthClassified does not hold of it.
ReRaised(failure) == "Exception"

\* lines 59-63: how a failure of the SFTP session leaves
\* upload_file_with_progress: AuthenticationException becomes
\* ConnectionRefusedError, anything else is logged and re-raised as it is.
RaisedAs(failure) == IF failure = "auth" THEN "ConnectionRefusedError" ELSE "Exception"

\* lines 198, 201: the text the except clause hands to edit_text: the
\* message of a ValueError or ConnectionRefusedError, else the generic one.
Reported(cls, failure) ==
    IF ~IsTyped(cls) THEN "generic"
    ELSE IF cls = "ValueError" THEN "config" ELSE failure

\* line 188: await file.get_file()
GetFile(ok) ==
    /\ pc = "get_file"
    /\ NoReady
    /\ IF ok
         THEN /\ pc' = "download"
              /\ op' = [op EXCEPT !.retrievals = @ + 1]
         ELSE /\ pc' = Raised("Exception")
              /\ op' = [op EXCEPT !.retrievals = @ + 1,
                                  !.cause = "retrieval",
                                  !.reported = Reported("Exception", "retrieval")]
    /\ Kept(nops)
    /\ UNCHANGED <<conv, calc, store, now, fs, nops, gate_locals, relay_locals>>

\* line 189: await tg_file.download_to_drive(temp_file_path).  A failed
\* download may or may not leave a partial file behind.  After a successful
\* one the handler runs on into upload_file_with_progress (line 194).
Download(res) ==
    /\ pc = "download"
    /\ NoReady
    /\ fs' = IF res \in {"ok", "partial"} THEN fs \cup {file_name} ELSE fs
    /\ IF res = "ok"
         THEN /\ pc' = "validate"
              /\ op' = op
         ELSE /\ pc' = Raised("Exception")
              /\ op' = [op EXCEPT !.cause = "retrieval",
                                  !.reported = Reported("Exception", "retrieval")]
    /\ Kept(nops)
    /\ UNCHANGED <<conv, calc, store, now, nops, gate_locals, relay_locals>>

\* lines 46-48: missing settings raise ValueError before any connection.
Validate ==
    /\ pc = "validate"
    /\ LET missing == missing_vars(env)
       IN  IF missing # <<>>
            THEN /\ pc' = Raised("ValueError")
                 /\ op' = [op EXCEPT !.cause = "config",
                                     !.missing = missing,
                                     !.reported = Reported("ValueError", "config")]
            ELSE /\ pc' = "connect"
                 /\ op' = op
    /\ Kept(nops)
    /\ UNCHANGED <<conv, calc, store, now, fs, nops, gate_locals, relay_locals>>

\* line 55: pysftp.Connection(...) succeeds, is refused for the credentials,
\* times out, or fails otherwise.
ConnectOutcomes == {"ok", "auth", "timeout", "other"}

\* line 55, then 57: on success sftp.put starts and stats the scratch file
\* (sz chunks, out of those the behaviour may still transfer).
Connect(res, sz) ==
    /\ pc = "connect"
    /\ sz <= chunks
    /\ chunks' = chunks - sz
    /\ IF res = "ok"
         THEN /\ pc' = "put"
              /\ total' = sz
              /\ op' = [op EXCEPT !.connects = @ + 1]
         ELSE /\ sz = 0
              /\ pc' = Raised(RaisedAs(res))
              /\ total' = total
              /\ op' = [op EXCEPT !.connects = @ + 1,
                                  !.cause = res,
                                  !.reported = Reported(RaisedAs(res), res)]
    /\ Kept(nops)
    /\ UNCHANGED <<conv, calc, channels, env, now, fs, nops, gate_locals, file_name,
                   sent>>

\* lines 191-192: sftp.put's callback hands progress_callback(sent, total)
\* to application.create_task; nothing of the coroutine runs yet.
sync_progress_callback(ts, s, t) ==
    Append(ts, [sent |-> s, total |-> t, st |-> "ready", at |-> 0, pct |-> 0])

\* line 57: sftp.put transfers one more chunk and calls the callback.
PutChunk ==
    /\ pc = "put"
    /\ sent < total
    /\ sent' = sent + 1
    /\ Collect(processing_msg, last_update_time,
               [tasks EXCEPT ![nops] = sync_progress_callback(@, sent + 1, total)], nops)
    /\ UNCHANGED <<conv, calc, store, now, fs, nops, pc, gate_locals, file_name, total, op>>

\* lines 57, 61-63: the transfer stalls past the transport's timeout or
\* breaks otherwise; the exception is logged and re-raised.
PutFail(res) ==
    /\ pc = "put"
    /\ res \in {"timeout", "other"}
    /\ pc' = Raised(RaisedAs(res))
    /\ op' = [op EXCEPT !.cause = res, !.reported = Reported(RaisedAs(res), res)]
    /\ Kept(nops)
    /\ UNCHANGED <<conv, calc, store, now, fs, nops, gate_locals, relay_locals>>

\* lines 57-58, 195: the transfer is complete, the link is built and the
\* handler awaits edit_text with it.
PutDone ==
    /\ pc = "put"
    /\ sent = total
    /\ pc' = "edit_link"
    /\ op' = [op EXCEPT !.uploaded = TRUE, !.reported = "link"]
    /\ Kept(nops)
    /\ UNCHANGED <<conv, calc, store, now, fs, nops, gate_locals, relay_locals>>

\* line 199: an exception of the edit at line 195 is caught by
\* `except Exception`, whose clause reports the generic error.
LinkEditRaises == Raised("Exception")

\* line 195, then 202-203: the edit with the link is applied and the
\* handler leaves through the finally clause; or the edit raises.
EditLink(ok) ==
    /\ pc = "edit_link"
    /\ NoReady
    /\ IF ok
         THEN /\ Collect([processing_msg EXCEPT ![nops] = LinkText],
                         last_update_time, tasks, 0)
              /\ op' = [op EXCEPT !.delivered = TRUE, !.returned = TRUE]
              /\ fs' = Finally(fs, file_name)
              /\ Return
         ELSE /\ pc' = LinkEditRaises
              /\ op' = [op EXCEPT !.cause = "display",
                                  !.reported = Reported("Exception", "display")]
              /\ Kept(nops)
              /\ UNCHANGED <<fs, gate_locals, relay_locals>>
    /\ UNCHANGED <<conv, calc, store, now, nops>>

\* The text of the outcome o.reported.
ErrorText(o) ==
    IF o.reported = "config" THEN ConfigText(o.missing)
    ELSE IF o.reported = "auth" THEN AuthText
    ELSE GenericText

\* lines 198 / 201, then 202-203: the error text is applied, or the edit
\* raises out of the except clause; either way the finally clause runs and
\* the handler is left.
ExceptEdit(ok) ==
    /\ pc \in {"except_typed", "except_generic"}
    /\ NoReady
    /\ Collect(IF ok THEN [processing_msg EXCEPT ![nops] = ErrorText(op)]
                     ELSE processing_msg,
               last_update_time, tasks, 0)
    /\ op' = [op EXCEPT !.delivered = ok, !.returned = TRUE]
    /\ fs' = Finally(fs, file_name)
    /\ Return
    /\ UNCHANGED <<conv, calc, store, now, nops>>

(***************************************************************************)
(* progress_callback, lines 175-185: one coroutine per callback of put.    *)
(***************************************************************************)
\* line 177: the report is dropped when the last rendered one is recent.
Suppressed(current_time, last) == current_time - last < MIN_INTERVAL

\* A coroutine that has ended keeps only how it ended.
Ended(how) == [sent |-> 0, total |-> 0, st |-> how, at |-> 0, pct |-> 0]

\* One progress state for the module, shared by every relay; Isolation
\* does not hold of it.
SharedClosure(o) == 1

\* lines 171-175: processing_msg and last_update_time are locals of the
\* handle_media call, captured by the progress_callback defined in it: a
\* coroutine of relay o reads and writes the cells of relay o.
Closure(o) == o

\* Coroutines start in the order create_task was called (the ready queue).
FirstReady(o, k) ==
    /\ tasks[o][k].st = "ready"
    /\ \A o2 \in Ops : \A k2 \in 1..Len(tasks[o2]) :
           (o2 < o \/ (o2 = o /\ k2 < k)) => tasks[o2][k2].st # "ready"

\* lines 176-183: the coroutine runs up to its await: it reads the clock,
\* returns if the report is suppressed, else renders and calls edit_text.
\* last_update_time is not written here: line 184 follows the await.
TaskStart(o, k) ==
    /\ ~LoopBlocked
    /\ k \in 1..Len(tasks[o])
    /\ FirstReady(o, k)
    /\ LET t == tasks[o][k]
       IN  Collect(processing_msg, last_update_time,
                   [tasks EXCEPT ![o][k] =
                        IF Suppressed(now, last_update_time[Closure(o)])
                        THEN Ended("skipped")
                        ELSE IF t.total = 0
                        THEN Ended("raised")
                        ELSE [t EXCEPT !.st = "editing", !.at = now,
                                       !.pct = Percentage(t.sent, t.total)]],
                   Running)
    /\ UNCHANGED <<conv, calc, store, now, fs, nops, pc, gate_locals, relay_locals, op>>

\* lines 183-185: the edit is applied and last_update_time[0] is set to the
\* time read at line 176; or the edit raises and the exception is dropped.
TaskEdit(o, k, ok) ==
    /\ ~LoopBlocked
    /\ NoReady
    /\ k \in 1..Len(tasks[o])
    /\ tasks[o][k].st = "editing"
    /\ LET t == tasks[o][k]
       IN  IF ok
            THEN Collect([processing_msg EXCEPT ![Closure(o)] = ProgressText(t.pct)],
                         [last_update_time EXCEPT ![Closure(o)] = t.at],
                         [tasks EXCEPT ![o][k] = Ended("done")], Running)
            ELSE Collect(processing_msg, last_update_time,
                         [tasks EXCEPT ![o][k] = Ended("failed")], Running)
    /\ UNCHANGED <<conv, calc, store, now, fs, nops, pc, gate_locals, relay_locals, op>>

(***************************************************************************)
(* The command handlers, the add-channel conversation and the re-check     *)
(* callback, lines 66-146 and 205-208.                                     *)
(***************************************************************************)
\* Identifiers a channel can be stored under, and what /delchannel and a
\* forwarded message can carry.
ChannelIds == {"@x", "@y"}
NoArg == "no argument"
NotChannel == "not a channel forward"

\* How the bot's own get_chat_member (line 106) can end: with the status
\* 'administrator', with another status, or with an exception (line 110
\* catches every one).
BotOutcomes == {"administrator", "member", TelegramError}

\* line 225: the Application handles one update at a time; an update is
\* dispatched when no handler runs and no created coroutine is to start.
Dispatch == pc = "idle" /\ NoReady

\* A handler other than handle_media has run for an update of user u and
\* has sent the reply, or (ok false) the reply has raised.  The handlers
\* whose reply is their last statement and which return no state are
\* modelled with the reply sent: what becomes of it changes nothing.
AdminOp(h, u, reply, ok) ==
    [NoOp EXCEPT !.handler = h, !.user = u, !.reply = reply,
                 !.delivered = ok /\ reply # "none", !.returned = TRUE]

\* A handler that leaves everything of the relays as it is.
RelaysKept ==
    UNCHANGED <<env, chunks, now, fs, nops, pc, gate_locals, relay_locals,
                processing_msg, last_update_time, tasks, calc>>

\* A guard that lets every sender through; OwnerOnly does not hold of it.
AnyUser(u) == TRUE

\* lines 70, 86, 130, 143: `if update.effective_user.id != OWNER_ID: return`
IsOwner(u) == u = OWNER_ID

\* lines 66-67: /start.
start(u) ==
    /\ Dispatch
    /\ op' = AdminOp("start", u, "hi", TRUE)
    /\ RelaysKept
    /\ UNCHANGED <<channels, conv>>

\* lines 69-82: /checkenv.
check_env(u) ==
    /\ Dispatch
    /\ op' = IF IsOwner(u) THEN AdminOp("check_env", u, "status", TRUE)
             ELSE AdminOp("check_env", u, "none", TRUE)
    /\ RelaysKept
    /\ UNCHANGED <<channels, conv>>

\* lines 85-93, 228: /addchannel, the entry point of the conversation (it
\* is tried only for a sender who is in no conversation).  A reply that
\* raises leaves the handler without a state: the conversation is not
\* entered.
add_channel_start(u, ok) ==
    /\ Dispatch
    /\ conv[u] = END
    /\ IF IsOwner(u)
         THEN /\ op' = AdminOp("add_channel_start", u, "instructions", ok)
              /\ conv' = IF ok THEN [conv EXCEPT ![u] = AWAITING_FORWARD] ELSE conv
         ELSE /\ op' = AdminOp("add_channel_start", u, "none", TRUE)
              /\ conv' = [conv EXCEPT ![u] = END]
    /\ RelaysKept
    /\ UNCHANGED channels

\* A list that takes every identifier; ChannelSet does not hold of it.
always_append(chs, id) == Append(chs, id)

\* lines 116-118: the identifier is appended unless it is in the list.
append_channel(chs, id) ==
    IF \E k \in 1..Len(chs) : chs[k] = id THEN chs ELSE Append(chs, id)

\* A handler that takes any status of the bot; AddChannelAmended does not
\* hold of it.
AnyStatus(r) == r # TelegramError

\* lines 105-112: the bot's status was queried and is 'administrator'.
BotIsAdmin(r) == r = "administrator"

\* The state a handler of the conversation leaves it in: the one it
\* returns, or, when it raises, the one it was in.
NewState(ok, returned, old) == IF ok THEN returned ELSE old

\* lines 95-123, 229: a forwarded message in state AWAITING_FORWARD.  fwd is
\* NotChannel or the identifier of the channel it is forwarded from, r how
\* get_chat_member ends, ok whether the reply is sent (else it raises).
receive_forwarded_message(u, fwd, r, ok) ==
    /\ Dispatch
    /\ conv[u] = AWAITING_FORWARD
    /\ LET h == "receive_forwarded_message"
       IN  IF fwd = NotChannel
            THEN /\ op' = AdminOp(h, u, "not_forward", ok)
                 /\ conv' = [conv EXCEPT ![u] = NewState(ok, AWAITING_FORWARD, @)]
                 /\ channels' = channels
            ELSE IF ~BotIsAdmin(r)
            THEN /\ op' = [AdminOp(h, u, IF r = TelegramError
                                         THEN "unverified" ELSE "not_admin", ok)
                             EXCEPT !.queries = 1, !.status = r]
                 /\ conv' = [conv EXCEPT ![u] = NewState(ok, END, @)]
                 /\ channels' = channels
            ELSE /\ channels' = append_channel(channels, fwd)
                 /\ op' = [AdminOp(h, u, IF channels' = channels THEN "already"
                                         ELSE "added", ok)
                             EXCEPT !.queries = 1, !.status = r]
                 /\ conv' = [conv EXCEPT ![u] = NewState(ok, END, @)]
    /\ RelaysKept

\* lines 125-127, 230: /cancel, a fallback of the conversation.
cancel_conversation(u, ok) ==
    /\ Dispatch
    /\ conv[u] = AWAITING_FORWARD
    /\ op' = AdminOp("cancel_conversation", u, "cancelled", ok)
    /\ conv' = [conv EXCEPT ![u] = NewState(ok, END, @)]
    /\ RelaysKept
    /\ UNCHANGED channels

\* line 136: list.remove drops the first occurrence.
remove_channel(chs, id) ==
    LET k == CHOOSE j \in 1..Len(chs) :
                 chs[j] = id /\ \A i \in 1..(j - 1) : chs[i] # id
    IN  SubSeq(chs, 1, k - 1) \o SubSeq(chs, k + 1, Len(chs))

\* lines 129-140: /delchannel with argument arg (NoArg: none).
del_channel(u, arg) ==
    /\ Dispatch
    /\ IF ~IsOwner(u)
         THEN /\ op' = AdminOp("del_channel", u, "none", TRUE)
              /\ channels' = channels
         ELSE IF arg = NoArg
         THEN /\ op' = AdminOp("del_channel", u, "usage", TRUE)
              /\ channels' = channels
         ELSE IF \E k \in 1..Len(channels) : channels[k] = arg
         THEN /\ channels' = remove_channel(channels, arg)
              /\ op' = AdminOp("del_channel", u, "removed", TRUE)
         ELSE /\ channels' = channels
              /\ op' = AdminOp("del_channel", u, "not_found", TRUE)
    /\ RelaysKept
    /\ UNCHANGED conv

\* lines 142-146: /listchannels.
list_channels(u) ==
    /\ Dispatch
    /\ op' = IF IsOwner(u) THEN AdminOp("list_channels", u, "list", TRUE)
             ELSE AdminOp("list_channels", u, "none", TRUE)
    /\ RelaysKept
    /\ UNCHANGED <<channels, conv>>

\* lines 205-208: u presses the button "I have joined" of the join prompt
\* the latest update brought them: query.answer(), then the prompt is
\* replaced by a text without buttons.  No get_chat_member call is made.
check_subscription_callback(u, ok) ==
    /\ Dispatch
    /\ op.handler = "handle_media" /\ op.prompt # <<>> /\ op.user = u
    /\ op' = AdminOp("check_subscription_callback", u, "thanks", ok)
    /\ RelaysKept
    /\ UNCHANGED <<channels, conv>>

(***************************************************************************)
(* The specification.                                                      *)
(***************************************************************************)
\* handle_media, the coroutines it creates, and the clock.
Relay ==
    \/ Tick
    \/ \E u \in Users, m \in Submissions : MediaEvent(u, m)
    \/ \E r \in QueryOutcomes, m \in Submissions : GateQuery(r, m)
    \/ Prompt
    \/ \E ok \in BOOLEAN : Reply(ok)
    \/ \E ok \in BOOLEAN : GetFile(ok)
    \/ \E res \in {"ok", "partial", "nothing"} : Download(res)
    \/ Validate
    \/ \E res \in ConnectOutcomes, sz \in 0..MaxChunks : Connect(res, sz)
    \/ PutChunk
    \/ \E res \in {"timeout", "other"} : PutFail(res)
    \/ PutDone
    \/ \E ok \in BOOLEAN : EditLink(ok)
    \/ \E ok \in BOOLEAN : ExceptEdit(ok)
    \/ \E o \in Ops : \E k \in 1..MaxChunks : TaskStart(o, k)
    \/ \E o \in Ops : \E k \in 1..MaxChunks : \E ok \in BOOLEAN : TaskEdit(o, k, ok)

\* The other handlers main() registers (lines 227-239).
Admin ==
    \/ \E u \in Users : start(u)
    \/ \E u \in Users : check_env(u)
    \/ \E u \in Users, ok \in BOOLEAN : add_channel_start(u, ok)
    \/ \E u \in Users, fwd \in ChannelIds \cup {NotChannel}, r \in BotOutcomes,
          ok \in BOOLEAN : receive_forwarded_message(u, fwd, r, ok)
    \/ \E u \in Users, ok \in BOOLEAN : cancel_conversation(u, ok)
    \/ \E u \in Users, arg \in ChannelIds \cup {NoArg} : del_channel(u, arg)
    \/ \E u \in Users : list_channels(u)
    \/ \E u \in Users, ok \in BOOLEAN : check_subscription_callback(u, ok)

Next == Relay \/ Admin

\* The bot on a deployment whose settings are all present.
Configured == Init /\ env = AllSet
Spec == Configured /\ [][Next]_vars

\* The relay alone, under every environment, the channel list being left
\* as it is.
SpecRelay == Init /\ [][Relay]_vars

\* The steps of handle_media after the update was dispatched, and the
\* first step of a created coroutine.
HandlerStep ==
    \/ \E r \in QueryOutcomes, m \in Submissions : GateQuery(r, m)
    \/ Prompt
    \/ \E ok \in BOOLEAN : Reply(ok)
    \/ \E ok \in BOOLEAN : GetFile(ok)
    \/ \E res \in {"ok", "partial", "nothing"} : Download(res)
    \/ Validate
    \/ \E res \in ConnectOutcomes, sz \in 0..MaxChunks : Connect(res, sz)
    \/ PutChunk
    \/ \E res \in {"timeout", "other"} : PutFail(res)
    \/ PutDone
    \/ \E ok \in BOOLEAN : EditLink(ok)
    \/ \E ok \in BOOLEAN : ExceptEdit(ok)
CoroutineStart == \E o \in Ops : \E k \in 1..MaxChunks : TaskStart(o, k)

\* Every external call the handler awaits or makes returns or raises, and
\* the event loop runs what is ready.
FairRelay == SpecRelay /\ WF_vars(HandlerStep) /\ WF_vars(CoroutineStart)

(***************************************************************************)
(* The pure computations, each applied to inputs drawn from bounded sets.  *)
(***************************************************************************)
MaxBase == 4       \* characters of a public URL base
MaxSize == 12      \* bytes of a file whose progress is rendered

\* Everything but calc.
bot == <<channels, env, now, fs, nops, pc, user_id, required_channels,
         not_subscribed, queried, file_name, total, sent, op,
         processing_msg, last_update_time, tasks, chunks, conv>>

\* Identifiers of channels: the usernames of public ones, and str(id) of a
\* private one (line 102).
Identifiers == ChannelIds \cup {"-100"}

\* Values PUBLIC_URL_BASE can have once validation has passed (line 46: it
\* is not empty), and file names.
Bases == UNION {[1..n -> {"h", "/"}] : n \in 1..MaxBase}
FileNames == {<<"c">>, <<"c", ".", "b">>}

\* lines 179-180: what progress_callback(sent, total) computes once it is
\* past line 177; with total = 0 line 179 raises and no bar is made.
Render(s, t) ==
    /\ calc' = [fn |-> "progress_callback", sent |-> s, total |-> t,
                percentage |-> Percentage(s, t),
                bar |-> IF Percentage(s, t) = DivError THEN <<>>
                        ELSE bar(Percentage(s, t))]
    /\ UNCHANGED bot

\* The list a sequence of list operations has led to (empty at first).
StoredList == IF calc.fn = "channels" THEN calc.list ELSE <<>>

\* lines 114-118: load_channels(), the test, append, save_channels().
AddToList(id) ==
    /\ calc.fn \in {"none", "channels"}
    /\ calc' = [fn |-> "channels", opn |-> "add", arg |-> id,
                before |-> StoredList, list |-> append_channel(StoredList, id)]
    /\ UNCHANGED bot

\* lines 134-137: load_channels(), the test, remove, save_channels().
DelFromList(id) ==
    /\ calc.fn \in {"none", "channels"}
    /\ calc' = [fn |-> "channels", opn |-> "del", arg |-> id,
                before |-> StoredList,
                list |-> IF \E k \in 1..Len(StoredList) : StoredList[k] = id
                         THEN remove_channel(StoredList, id) ELSE StoredList]
    /\ UNCHANGED bot

\* line 58: the link of a successful upload.
Link(base, remote_filename) ==
    /\ calc' = [fn |-> "public_url", base |-> base, name |-> remote_filename,
                out |-> public_url(base, remote_filename)]
    /\ UNCHANGED bot

Calc ==
    \/ \E base \in Bases, n \in FileNames : Link(base, n)
    \/ \E s, t \in 0..MaxSize : Render(s, t)
    \/ \E id \in Identifiers : AddToList(id)
    \/ \E id \in Identifiers : DelFromList(id)

InitCalc == Configured /\ channels = <<>>
SpecCalc == InitCalc /\ [][Calc]_vars


(***************************************************************************)
(* Properties.                                                             *)
(***************************************************************************)
RelayPcs == {"get_file", "download", "validate", "connect", "put", "edit_link",
             "except_typed", "except_generic"}
RelayStarted == pc \in RelayPcs \/ op.retrievals > 0
Range(q) == {q[k] : k \in 1..Len(q)}

\* C1: with a non-empty channel list the relay is started only if, in the
\* same event, every channel of the list was queried for the sender and
\* returned member, administrator or creator; the sender is admitted iff
\* no channel blocks, and when one blocks the join prompt (a button per
\* blocking channel) is sent and nothing of the relay runs.
GateAdmission ==
    /\ pc \in {"reply", "prompt"} /\ required_channels # <<>> =>
          /\ required_channels = channels
          /\ Len(queried) = Len(required_channels)
          /\ \A k \in 1..Len(queried) :
                /\ queried[k][1] = required_channels[k]
                /\ queried[k][2] = user_id
          /\ not_subscribed = SelectSeq(required_channels,
                 LAMBDA c : \E k \in 1..Len(queried) :
                     queried[k][1] = c /\ queried[k][3] \notin Satisfying)
          /\ op.blocking = not_subscribed
          /\ op.admitted <=> not_subscribed = <<>>
          /\ pc = "reply" <=> op.admitted
    /\ RelayStarted => op.admitted /\ op.blocking = <<>> /\ op.prompt = <<>>
    /\ op.prompt # <<>> =>
          /\ ~op.admitted /\ op.blocking # <<>> /\ op.retrievals = 0
          /\ op.prompt = Buttons(op.blocking)

\* C1: a sender who satisfied both channels of the list is in the relay.
GateAdmissionWitness ==
    /\ Len(channels) = 2 /\ op.admitted /\ pc = "download"

\* C2: whenever a membership query raises, for any cause, its channel is in
\* the blocking channels, the failure is not propagated out of the gate as
\* an error, and the sender is not admitted.
FailClosed ==
    /\ \A k \in 1..Len(queried) :
          queried[k][3] \notin Statuses => queried[k][1] \in Range(not_subscribed)
    /\ (\E k \in 1..Len(queried) : queried[k][3] \notin Statuses) => ~op.admitted
    /\ op.cause # "gate_exception"

\* C3: once a relay operation has returned, on whatever path, its scratch
\* file does not exist.  (One handler runs at a time, so the files under
\* /tmp are those of the running handler.)
ScratchRemoved == pc = "idle" => fs = {}

\* C3: a relay whose scratch file was written has returned after the
\* report of its outcome raised.
ScratchRemovedWitness ==
    /\ op.returned /\ op.cause \in {"display", "timeout", "other"} /\ ~op.delivered

\* C4: when a required setting is missing, a relay that reaches the upload
\* ends with the configuration error naming exactly the missing settings
\* and no connection is attempted; the environment never changes, so every
\* relay under the same configuration ends the same way.
ConfigValidation ==
    LET miss == {v \in Settings : ~env[v]}
        validated == \/ pc \in {"connect", "put", "edit_link"}
                     \/ op.connects > 0
                     \/ op.cause \in {"config", "auth", "timeout", "other", "display"}
    IN  /\ validated /\ miss # {} =>
              /\ op.cause = "config" /\ op.reported = "config"
              /\ op.connects = 0 /\ ~op.uploaded
              /\ Range(op.missing) = miss
              /\ Len(op.missing) = Cardinality(miss)
              /\ ErrorText(op) = ConfigText(op.missing)
        /\ op.cause = "config" => miss # {}

\* C4: the second relay under a configuration that misses two settings
\* has reported the configuration error.
ConfigValidationWitness ==
    /\ nops = 2 /\ op.returned /\ op.cause = "config" /\ op.delivered
    /\ Len(op.missing) = 2

\* C5: the updates applied to one status message are in non-decreasing
\* progress order, and the link, once shown, is not replaced by a progress
\* update.
StatusOrdering ==
    [][\A o \in Ops :
          /\ processing_msg[o].kind = "link" => processing_msg'[o].kind # "progress"
          /\ processing_msg[o].kind = "progress" /\ processing_msg'[o].kind = "progress"
                => processing_msg'[o].pct >= processing_msg[o].pct]_vars

\* C6: the first progress report of a relay emits an update, and any two
\* emitted updates (edit_text called, line 183) of one relay are at least
\* MIN_INTERVAL apart.
RateLimit ==
    \A o \in Ops :
        /\ Len(tasks[o]) > 0 => tasks[o][1].st # "skipped"
        /\ \A j, k \in 1..Len(tasks[o]) :
              j < k /\ tasks[o][j].st = "editing" /\ tasks[o][k].st = "editing"
                 => tasks[o][k].at - tasks[o][j].at >= MIN_INTERVAL

\* C7: during the upload step the event loop is free: a progress report
\* made during the upload can be rendered before the upload finishes.
NonBlocking ==
    \A o \in Ops : \A k \in 1..Len(tasks[o]) :
        pc = "put" /\ FirstReady(o, k) => ENABLED TaskStart(o, k)

\* C8: a transport that stalls past its timeout ends the relay with a
\* timeout outcome, reported as such and not as the generic unexpected
\* failure, and the scratch file is removed.
TimeoutClassified ==
    op.cause = "timeout" =>
        /\ op.reported = "timeout"
        /\ op.returned => fs = {}

\* C9: when the destination rejects the credentials the relay reports the
\* authentication error with the hint to check the credentials, never the
\* generic message and never the link.
AuthClassified ==
    op.cause = "auth" =>
        /\ op.reported = "auth" /\ ~op.uploaded
        /\ ErrorText(op) = AuthText
        /\ pc \in {"except_typed", "idle"}

\* C9: a relay refused for its credentials has shown the authentication
\* error.
AuthClassifiedWitness == op.cause = "auth" /\ op.returned /\ op.delivered

\* C10: a failed status edit never turns the outcome of a relay into an
\* error: a successful upload is not reported as an unexpected error.
DisplaySwallowed == op.uploaded => op.reported = "link" /\ pc \in {"edit_link", "idle"}

\* C11: a media event processed while the channel list is empty admits the
\* sender with no membership query and an empty blocking list, and the
\* relay proceeds (the handler goes on to line 171).
NoGateMode ==
    /\ pc \in {"gate", "prompt"} => required_channels # <<>>
    /\ pc = "reply" /\ required_channels = <<>> =>
          /\ queried = <<>> /\ not_subscribed = <<>>
          /\ op.admitted /\ op.blocking = <<>> /\ op.prompt = <<>>
          /\ ENABLED Reply(TRUE)
    /\ op.handler = "handle_media" /\ channels = <<>> /\ pc # "idle" =>
          /\ op.admitted /\ op.blocking = <<>> /\ op.queries = 0
          /\ pc \in {"reply"} \cup RelayPcs

\* C11: under an empty channel list the second media event is downloading.
NoGateModeWitness ==
    /\ channels = <<>> /\ nops = 2 /\ pc = "download" /\ op.admitted

\* C12: the persisted channel list changes only in a step of the owner's
\* (the forwarded-message step of the add-channel conversation, which only
\* the owner can be in, or /delchannel), and /listchannels and /checkenv
\* reply to the owner only.
OwnerOnly ==
    [][/\ channels' # channels =>
             /\ op'.user = OWNER_ID
             /\ op'.handler \in {"receive_forwarded_message", "del_channel"}
       /\ \A u \in Users : conv'[u] = AWAITING_FORWARD => u = OWNER_ID
       /\ op'.handler \in {"list_channels", "check_env", "del_channel",
                           "add_channel_start"} /\ op'.reply # "none"
             => op'.user = OWNER_ID]_vars

\* C12: the owner's forwarded message has added a channel to a list that
\* was not empty.
OwnerOnlyWitness ==
    /\ op.handler = "receive_forwarded_message" /\ op.reply = "added"
    /\ op.user = OWNER_ID /\ Len(channels) = 2

\* C13: the link of a successful upload is the public URL base without
\* its trailing slashes, one '/', and the remote file name.
PublicUrl ==
    calc.fn = "public_url" =>
        LET k == Len(calc.out) - Len(calc.name)
        IN  /\ k >= 1 /\ k - 1 <= Len(calc.base)
            /\ SubSeq(calc.out, k + 1, Len(calc.out)) = calc.name
            /\ calc.out[k] = "/"
            /\ k > 1 => calc.out[k - 1] # "/"
            /\ SubSeq(calc.out, 1, k - 1) = SubSeq(calc.base, 1, k - 1)
            /\ \A i \in k..Len(calc.base) : calc.base[i] = "/"

\* C13: the link was built from a base with two trailing slashes.
PublicUrlWitness ==
    /\ calc.fn = "public_url" /\ calc.base = <<"h", "/", "/">>
    /\ calc.out = <<"h", "/", "c", ".", "b">>

\* C14: for all non-negative sent and total the report computes
\* floor(100 * sent / total) clamped to [0, 100], 0 without a division
\* error when total = 0, and renders a bar of exactly 10 segments of which
\* floor(percentage / 10) are filled.
ProgressRendering ==
    calc.fn = "progress_callback" =>
        LET exact == IF calc.total = 0 THEN 0 ELSE (100 * calc.sent) \div calc.total
            want == IF exact > 100 THEN 100 ELSE exact
        IN  /\ calc.percentage = want
            /\ Len(calc.bar) = 10
            /\ \A i \in 1..10 : calc.bar[i] = "#" <=> i <= want \div 10

\* C18: from a duplicate-free list, every sequence of add and delete
\* operations leaves the list without a duplicate; adding an identifier
\* that is present and deleting one that is absent leave the list as it
\* is; the entries that remain keep their relative order.
ChannelSet ==
    calc.fn = "channels" =>
        LET in(q, x) == \E k \in 1..Len(q) : q[k] = x
        IN  /\ \A i, j \in 1..Len(calc.list) : calc.list[i] = calc.list[j] => i = j
            /\ calc.opn = "add" =>
                  calc.list = IF in(calc.before, calc.arg) THEN calc.before
                              ELSE Append(calc.before, calc.arg)
            /\ calc.opn = "del" =>
                  calc.list = SelectSeq(calc.before, LAMBDA x : x # calc.arg)

\* C18: the middle one of three stored identifiers has been deleted.
ChannelSetWitness ==
    /\ calc.fn = "channels" /\ calc.opn = "del" /\ Len(calc.before) = 3
    /\ calc.arg = calc.before[2] /\ Len(calc.list) = 2

\* The state of the relay operation of the latest media event.
Phase ==
    IF pc \in {"get_file", "download"} THEN "Retrieving"
    ELSE IF pc = "validate" THEN "Validating"
    ELSE IF pc \in {"connect", "put"} THEN "Uploading"
    ELSE IF pc = "edit_link" THEN "Publishing"
    ELSE IF pc \in {"except_typed", "except_generic"} THEN "Failed"
    ELSE IF pc = "idle" /\ op.returned /\ op.retrievals > 0 THEN "Cleaned"
    ELSE "Idle"
Edges ==
    {<<"Idle", "Retrieving">>, <<"Retrieving", "Validating">>,
     <<"Validating", "Uploading">>, <<"Uploading", "Publishing">>,
     <<"Retrieving", "Failed">>, <<"Validating", "Failed">>,
     <<"Uploading", "Failed">>, <<"Publishing", "Failed">>,
     <<"Publishing", "Cleaned">>, <<"Failed", "Cleaned">>,
     <<"Cleaned", "Idle">>}

NoRetries ==
    /\ [](/\ op.retrievals <= 1 /\ op.connects <= 1
          /\ op.cause # "none" =>
                pc \in {"except_typed", "except_generic", "idle"}
          /\ op.returned /\ op.retrievals > 0 =>
                /\ op.reported \in {"link", "config", "auth", "generic"}
                /\ op.reported = "link" <=> op.cause = "none")
    /\ [][op.cause # "none" /\ nops' = nops =>
             /\ op'.cause = op.cause
             /\ op'.retrievals = op.retrievals
             /\ op'.connects = op.connects
             /\ op'.reported = op.reported]_vars

\* C16: an operation whose retrieval failed has ended, having retrieved
\* once and connected never.
NoRetriesWitness ==
    /\ op.returned /\ op.cause = "retrieval"
    /\ op.retrievals = 1 /\ op.connects = 0 /\ op.reported = "generic"

\* C17: every relay operation has a progress state and a scratch file of
\* its own: a step changes the progress state of relay o only if it is a
\* step of o's handler or of one of o's coroutines; the only file under
\* /tmp is the scratch file of the running handler, and there is none when
\* a handler (whatever the name of its file) starts its retrieval.
Isolation ==
    /\ [][\A o \in Ops :
             \/ processing_msg'[o] # processing_msg[o]
             \/ last_update_time'[o] # last_update_time[o]
             => \/ tasks'[o] # tasks[o]
                \/ o = nops /\ pc # "idle"]_vars
    /\ [](/\ fs \subseteq {file_name}
          /\ pc \in {"idle", "gate", "prompt", "reply", "get_file"} => fs = {})

\* C17: the second of two submissions of the same second, unnamed, is
\* being uploaded from its scratch file while an edit of the first one's
\* progress is still in flight.
IsolationWitness ==
    /\ nops = 2 /\ now = StartTime /\ pc = "put" /\ sent = 1
    /\ file_name = <<"video_", StartTime>> /\ file_name \in fs
    /\ \E k \in 1..Len(tasks[1]) : tasks[1][k].st = "editing"

\* C19: the join prompt has one join action per blocking channel, in list
\* order, and exactly one re-check action; pressing the re-check action
\* runs the membership check again for the same user, one query for each
\* channel of the current list.
ReCheck ==
    /\ op.prompt # <<>> =>
          /\ Len(op.prompt) = Len(op.blocking) + 1
          /\ \A k \in 1..Len(op.blocking) : op.prompt[k] = <<"join", op.blocking[k]>>
          /\ op.prompt[Len(op.prompt)][1] = "check_subscription"
    /\ op.handler = "check_subscription_callback" => op.queries = Len(channels)

\* A step of receive_forwarded_message that is not a mere repetition.
ForwardedStep ==
    /\ op'.handler = "receive_forwarded_message"
    /\ <<op, conv, channels>>' # <<op, conv, channels>>

\* C20: an identifier is appended to the channel list only by the step
\* that handles a forwarded channel message in the awaiting-forward state
\* and after the bot's status was queried and is 'administrator'; in every
\* other case the list is left as it is.
AppendGuarded ==
    /\ Len(channels') > Len(channels) =>
          /\ ForwardedStep
          /\ conv[op'.user] = AWAITING_FORWARD
          /\ op'.reply = "added" /\ op'.queries = 1
          /\ op'.status = "administrator"
          /\ \E id \in ChannelIds :
                /\ \A k \in 1..Len(channels) : channels[k] # id
                /\ channels' = Append(channels, id)
    /\ ForwardedStep /\ op'.reply # "added" => channels' = channels

=============================================================================
